---- MODULE Spec2Model ----
(***************************************************************************)
(* Model of src/public_interface/unified_api.rs: the operation-code        *)
(* dispatch (perform_operation) and the C entry point                      *)
(* (c_perform_operation) that marshals caller-owned buffers.               *)
(*                                                                         *)
(* Memory is one shared heap (address -> cell).  Each call owns an input   *)
(* buffer, a result buffer, an error buffer and the two u32 length cells   *)
(* its pointer arguments name.  The group and pairing implementations are  *)
(* outside this file; what they return for a given input is the call's     *)
(* `core` value, fixed when the call is made (they are pure functions of   *)
(* the input).                                                             *)
(***************************************************************************)
EXTENDS Integers, Sequences, FiniteSets, TLC

VARIABLES env, mem, mem0, pc, operation, modulus, limbs, result, ret, calls, rd, wr

vars == <<env, mem, mem0, pc, operation, modulus, limbs, result, ret, calls, rd, wr>>

(***************************************************************************)
(* Program constants                                                       *)
(***************************************************************************)
PREALLOCATE_FOR_ERROR_BYTES == 256
PREALLOCATE_FOR_RESULT_BYTES == 768
\* const_assert: PREALLOCATE_FOR_RESULT_BYTES == MAX_MODULUS_BYTE_LEN * 3 * 2
MAX_MODULUS_BYTE_LEN == PREALLOCATE_FOR_RESULT_BYTES \div (3 * 2)
BYTES_FOR_LENGTH_ENCODING == 1
LIMB_BITS == 64
MIN_LIMBS == 4
MAX_LIMBS == 16

(***************************************************************************)
(* Bounds of the model                                                     *)
(***************************************************************************)
MaxInputLen == 132   \* bytes reserved for one call's input buffer
FillByte == 170      \* content of caller buffers before the call
UnsetLen == 4000     \* content of *o_len and *char_len before the call
MaxSeed == 1         \* result payloads are generated from seeds 0..MaxSeed

Calls == {1, 2}

(***************************************************************************)
(* enum OperationType and the *_OPERATION_RAW_VALUE constants              *)
(***************************************************************************)
OperationType ==
    {"G1ADD", "G1MUL", "G1MULTIEXP", "G2ADD", "G2MUL", "G2MULTIEXP",
     "BLS12PAIR", "BNPAIR", "MNT4PAIR", "MNT6PAIR"}

RawValue(kind) ==
    CASE kind = "G1ADD" -> 1
      [] kind = "G1MUL" -> 2
      [] kind = "G1MULTIEXP" -> 3
      [] kind = "G2ADD" -> 4
      [] kind = "G2MUL" -> 5
      [] kind = "G2MULTIEXP" -> 6
      [] kind = "BLS12PAIR" -> 7
      [] kind = "BNPAIR" -> 8
      [] kind = "MNT4PAIR" -> 9
      [] kind = "MNT6PAIR" -> 10

PairingOps == {"BLS12PAIR", "BNPAIR", "MNT4PAIR", "MNT6PAIR"}

ErrorKinds ==
    {"InputError", "UnsupportedParameters", "InvalidPoint", "InvalidSubgroup",
     "UnexpectedZero"}

(***************************************************************************)
(* Byte strings                                                            *)
(***************************************************************************)
\* b"Unknown operation type\0"
UnknownOperationMsg ==
    <<85, 110, 107, 110, 111, 119, 110, 32,
      111, 112, 101, 114, 97, 116, 105, 111, 110, 32,
      116, 121, 112, 101, 0>>

\* b"Failed to write the result\0"
FailedToWriteMsg ==
    <<70, 97, 105, 108, 101, 100, 32, 116, 111, 32,
      119, 114, 105, 116, 101, 32, 116, 104, 101, 32,
      114, 101, 115, 117, 108, 116, 0>>

Min(a, b) == IF a <= b THEN a ELSE b

\* a payload of n bytes, distinct from the fill pattern at its first byte
Bytes(n, seed) == [k \in 1..n |-> (seed + 7 * k) % 256]

Prefix(s, n) == [k \in 1..n |-> s[k]]


(***************************************************************************)
(* The caller's buffers: one region of the heap per call                   *)
(***************************************************************************)
RegionSize == MaxInputLen + PREALLOCATE_FOR_RESULT_BYTES + PREALLOCATE_FOR_ERROR_BYTES + 2

Base(c) == (c - 1) * RegionSize

Region(c) == Base(c)..(Base(c) + RegionSize - 1)

Heap == 0..(Cardinality(Calls) * RegionSize - 1)

\* the pointer arguments i, o, err, o_len, char_len of call c
Pointers(c) ==
    [i |-> Base(c),
     o |-> Base(c) + MaxInputLen,
     err |-> Base(c) + MaxInputLen + PREALLOCATE_FOR_RESULT_BYTES,
     o_len |-> Base(c) + MaxInputLen + PREALLOCATE_FOR_RESULT_BYTES
                 + PREALLOCATE_FOR_ERROR_BYTES,
     char_len |-> Base(c) + MaxInputLen + PREALLOCATE_FOR_RESULT_BYTES
                 + PREALLOCATE_FOR_ERROR_BYTES + 1]

(***************************************************************************)
(* Slices over the heap and std::io::Write for &mut [u8]                   *)
(***************************************************************************)
Slice(ptr, len) == [ptr |-> ptr, len |-> len]

\* the bytes a slice covers
Load(m, s) == [k \in 1..s.len |-> m[s.ptr + k - 1]]

Store(m, ptr, v) == [a \in DOMAIN m |-> IF a = ptr THEN v ELSE m[a]]

\* <&mut [u8] as Write>::write: copies min(data.len(), self.len()) bytes and
\* returns Ok(that amount); it never returns Err
slice_write(m, s, data) ==
    LET amt == Min(Len(data), s.len)
    IN  [ok |-> TRUE,
         n |-> amt,
         mem |-> [a \in DOMAIN m |->
                    IF a >= s.ptr /\ a < s.ptr + amt
                    THEN data[a - s.ptr + 1] ELSE m[a]]]

\* variant: the error slice is given the result buffer's size
err_out_result_sized(c) == Slice(env[c].err, PREALLOCATE_FOR_RESULT_BYTES)

\* let err_out = from_raw_parts_mut(err, PREALLOCATE_FOR_ERROR_BYTES)
err_out(c) == Slice(env[c].err, PREALLOCATE_FOR_ERROR_BYTES)

\* variant: results go through one process-wide buffer, not the caller's
raw_out_static(c) == Slice(Pointers(1).o, PREALLOCATE_FOR_ERROR_BYTES)

\* let raw_out = from_raw_parts_mut(o, PREALLOCATE_FOR_ERROR_BYTES)
raw_out(c) == Slice(env[c].o, PREALLOCATE_FOR_ERROR_BYTES)

\* let input = from_raw_parts(i, i_len)
input_slice(c) == Slice(env[c].i, env[c].i_len)

(***************************************************************************)
(* Result<Vec<u8>, ApiError>                                               *)
(***************************************************************************)
Ok(bytes) == [ok |-> TRUE, kind |-> "Ok", bytes |-> bytes]

\* an ApiError of the given kind whose description() is descr
Err(kind, descr) == [ok |-> FALSE, kind |-> kind, bytes |-> descr]

NoResult == [ok |-> FALSE, kind |-> "none", bytes |-> <<>>]

(***************************************************************************)
(* Parameter decoder and backend selector (decode_utils, field)            *)
(***************************************************************************)
RECURSIVE BitLength8(_)
BitLength8(b) == IF b = 0 THEN 0 ELSE 1 + BitLength8(b \div 2)

\* bit length of a big-endian byte string: leading zero bytes do not count
BitLength(bytes) ==
    IF \A k \in 1..Len(bytes) : bytes[k] = 0 THEN 0
    ELSE LET f == CHOOSE k \in 1..Len(bytes) :
                     bytes[k] # 0 /\ \A j \in 1..(k - 1) : bytes[j] = 0
         IN  8 * (Len(bytes) - f) + BitLength8(bytes[f])

\* decoder contract: InputError if a declared length exceeds the remaining
\* buffer, if the modulus is even or zero, or if the modulus byte length
\* exceeds the supported maximum; lengths are validated before the bytes
\* they prefix are consumed
parse_modulus_and_length(bytes, descr) ==
    IF Len(bytes) < BYTES_FOR_LENGTH_ENCODING
    THEN Err("InputError", descr) @@ [modulus |-> <<>>]
    ELSE LET modulus_len == bytes[1]
             rest == SubSeq(bytes, BYTES_FOR_LENGTH_ENCODING + 1, Len(bytes))
         IN  IF modulus_len = 0
             THEN Err("InputError", descr) @@ [modulus |-> <<>>]
             ELSE IF modulus_len > MAX_MODULUS_BYTE_LEN
             THEN Err("InputError", descr) @@ [modulus |-> <<>>]
             ELSE IF Len(rest) < modulus_len
             THEN Err("InputError", descr) @@ [modulus |-> <<>>]
             ELSE LET m == SubSeq(rest, 1, modulus_len)
                  IN  IF BitLength(m) = 0 \/ m[modulus_len] % 2 = 0
                      THEN Err("InputError", descr) @@ [modulus |-> <<>>]
                      ELSE Ok(<<>>) @@ [modulus |-> m]

\* selector contract: the smallest supported limb count that holds the bit
\* length, UnsupportedParameters beyond the largest supported one
num_limbs_for_modulus(m, descr) ==
    LET n == (BitLength(m) \div LIMB_BITS) + 1
    IN  IF n > MAX_LIMBS
        THEN Err("UnsupportedParameters", descr) @@ [limbs |-> 0]
        ELSE Ok(<<>>) @@ [limbs |-> IF n < MIN_LIMBS THEN MIN_LIMBS ELSE n]

(***************************************************************************)
(* c_perform_operation: operation-code match                               *)
(***************************************************************************)
\* let op_u8: u8 = transmute(op)   (c_char is a signed byte)
op_u8(op) == (op + 256) % 256

\* variant: the last arm is a catch-all, no code is rejected
MatchOp_catch_all(b) ==
    CASE b = 1 -> "G1ADD"
      [] b = 2 -> "G1MUL"
      [] b = 3 -> "G1MULTIEXP"
      [] b = 4 -> "G2ADD"
      [] b = 5 -> "G2MUL"
      [] b = 6 -> "G2MULTIEXP"
      [] b = 7 -> "BLS12PAIR"
      [] b = 8 -> "BNPAIR"
      [] b = 9 -> "MNT4PAIR"
      [] OTHER -> "MNT6PAIR"

MatchOp(b) ==
    CASE b = RawValue("G1ADD") -> "G1ADD"
      [] b = RawValue("G1MUL") -> "G1MUL"
      [] b = RawValue("G1MULTIEXP") -> "G1MULTIEXP"
      [] b = RawValue("G2ADD") -> "G2ADD"
      [] b = RawValue("G2MUL") -> "G2MUL"
      [] b = RawValue("G2MULTIEXP") -> "G2MULTIEXP"
      [] b = RawValue("BLS12PAIR") -> "BLS12PAIR"
      [] b = RawValue("BNPAIR") -> "BNPAIR"
      [] b = RawValue("MNT4PAIR") -> "MNT4PAIR"
      [] b = RawValue("MNT6PAIR") -> "MNT6PAIR"
      [] OTHER -> "unknown"

\* the `_ =>` arm: write the message, set *char_len, return 1
UnknownOperation(c, m) ==
    LET w == slice_write(m, err_out(c), UnknownOperationMsg)
    IN  [mem |-> Store(w.mem, env[c].char_len, IF w.ok THEN w.n ELSE 0),
         ret |-> 1,
         wr |-> {<<env[c].err, w.n>>, <<env[c].char_len, 1>>}]

(***************************************************************************)
(* perform_operation                                                       *)
(***************************************************************************)
\* variant: the G2ADD arm calls the G1 implementation
HandlerOf_g2add_as_g1(op) ==
    CASE op = "G1ADD" -> "PublicG1Api::add_points"
      [] op = "G1MUL" -> "PublicG1Api::mul_point"
      [] op = "G1MULTIEXP" -> "PublicG1Api::multiexp"
      [] op = "G2ADD" -> "PublicG1Api::add_points"
      [] op = "G2MUL" -> "PublicG2Api::mul_point"
      [] op = "G2MULTIEXP" -> "PublicG2Api::multiexp"
      [] OTHER -> "pairing"

\* the outer match, arms of the six group operations
HandlerOf(op) ==
    CASE op = "G1ADD" -> "PublicG1Api::add_points"
      [] op = "G1MUL" -> "PublicG1Api::mul_point"
      [] op = "G1MULTIEXP" -> "PublicG1Api::multiexp"
      [] op = "G2ADD" -> "PublicG2Api::add_points"
      [] op = "G2MUL" -> "PublicG2Api::mul_point"
      [] op = "G2MULTIEXP" -> "PublicG2Api::multiexp"
      [] OTHER -> "pairing"

\* variant: the BNPAIR arm runs the BLS12 implementation
PairingImpl_bn_as_bls12(op) ==
    CASE op = "BLS12PAIR" -> "pair_bls12"
      [] op = "BNPAIR" -> "pair_bls12"
      [] op = "MNT4PAIR" -> "pair_mnt4"
      [] op = "MNT6PAIR" -> "pair_mnt6"
      [] OTHER -> "unreachable"

\* the inner match of the pairing arm
PairingImpl(op) ==
    CASE op = "BLS12PAIR" -> "pair_bls12"
      [] op = "BNPAIR" -> "pair_bn"
      [] op = "MNT4PAIR" -> "pair_mnt4"
      [] op = "MNT6PAIR" -> "pair_mnt6"
      [] OTHER -> "unreachable"

\* variant: a decoder error is not propagated; the modulus is cut to the
\* supported byte length and the call goes on
parse_step_truncating(bytes, descr) ==
    LET r == parse_modulus_and_length(bytes, descr)
    IN  IF r.ok
        THEN [next |-> "limbs", modulus |-> r.modulus, result |-> NoResult]
        ELSE [next |-> "limbs",
              modulus |-> SubSeq(bytes, BYTES_FOR_LENGTH_ENCODING + 1,
                                 Min(Len(bytes),
                                     BYTES_FOR_LENGTH_ENCODING + MAX_MODULUS_BYTE_LEN)),
              result |-> NoResult]

\* let (_, modulus, _) = parse_modulus_and_length(&input)?;
parse_step(bytes, descr) ==
    LET r == parse_modulus_and_length(bytes, descr)
    IN  IF r.ok
        THEN [next |-> "limbs", modulus |-> r.modulus, result |-> NoResult]
        ELSE [next |-> "marshal", modulus |-> <<>>,
              result |-> Err(r.kind, r.bytes)]

\* let modulus_limbs = num_limbs_for_modulus(&modulus)?;
limbs_step(m, descr) ==
    LET r == num_limbs_for_modulus(m, descr)
    IN  IF r.ok
        THEN [next |-> "pair", limbs |-> r.limbs, result |-> NoResult]
        ELSE [next |-> "marshal", limbs |-> 0,
              result |-> Err(r.kind, r.bytes)]

\* expand_for_modulus_limbs!(modulus_limbs, PairingApiImplementation, input, f):
\* the implementation instantiated at that limb count, applied to the input
expand_for_modulus_limbs(modulus_limbs, f) == [fn |-> f, limbs |-> modulus_limbs]

(***************************************************************************)
(* c_perform_operation: match result                                       *)
(***************************************************************************)
\* variant: the Ok arm also reports a zero-length error text
MarshalOk_sets_char_len(c, m, bytes) ==
    LET w == slice_write(m, raw_out(c), bytes)
    IN  [mem |-> Store(Store(w.mem, env[c].o_len, w.n), env[c].char_len, 0),
         ret |-> 0,
         wr |-> {<<env[c].o, w.n>>, <<env[c].o_len, 1>>, <<env[c].char_len, 1>>}]

\* Ok(result) arm
MarshalOk(c, m, bytes) ==
    LET w == slice_write(m, raw_out(c), bytes)
    IN  IF w.ok
        THEN [mem |-> Store(w.mem, env[c].o_len, w.n),
              ret |-> 0,
              wr |-> {<<env[c].o, w.n>>, <<env[c].o_len, 1>>}]
        ELSE LET e == slice_write(m, err_out(c), FailedToWriteMsg)
             IN  [mem |-> Store(e.mem, env[c].char_len,
                                IF e.ok THEN e.n ELSE 0),
                  ret |-> 1,
                  wr |-> {<<env[c].err, e.n>>, <<env[c].char_len, 1>>}]

\* variant: the Err arm also reports an empty result
MarshalErr_sets_o_len(c, m, err_description) ==
    LET w == slice_write(m, err_out(c), err_description)
    IN  [mem |-> Store(Store(w.mem, env[c].char_len, IF w.ok THEN w.n ELSE 0),
                       env[c].o_len, 0),
         ret |-> 1,
         wr |-> {<<env[c].err, w.n>>, <<env[c].char_len, 1>>, <<env[c].o_len, 1>>}]

\* Err(error) arm
MarshalErr(c, m, err_description) ==
    LET w == slice_write(m, err_out(c), err_description)
    IN  [mem |-> Store(w.mem, env[c].char_len, IF w.ok THEN w.n ELSE 0),
         ret |-> 1,
         wr |-> {<<env[c].err, w.n>>, <<env[c].char_len, 1>>}]

(***************************************************************************)
(* Calls the model makes: operation code, input bytes, and what the        *)
(* implementations outside this file return for that input                 *)
(***************************************************************************)
\* a length byte followed by n modulus bytes (big-endian: top first)
Enc(declared, n, top, low) ==
    <<declared>> \o [k \in 1..n |-> IF k = 1 THEN top ELSE IF k = n THEN low ELSE 0]

ModulusInputs ==
    {<< >>, <<0>>,
     Enc(MAX_MODULUS_BYTE_LEN + 1, MAX_MODULUS_BYTE_LEN + 1, 1, 1),
     Enc(255, 3, 1, 1),
     Enc(MAX_MODULUS_BYTE_LEN, MAX_MODULUS_BYTE_LEN, 128, 1),
     Enc(MAX_MODULUS_BYTE_LEN, MAX_MODULUS_BYTE_LEN, 127, 1),
     Enc(MAX_MODULUS_BYTE_LEN, MAX_MODULUS_BYTE_LEN, 0, 1),
     Enc(48, 48, 26, 171),
     Enc(32, 32, 48, 1),
     Enc(1, 1, 7, 7),
     Enc(2, 2, 1, 2),
     Enc(4, 2, 1, 1),
     Enc(3, 3, 0, 0)}

ResLens ==
    {0, 1, PREALLOCATE_FOR_ERROR_BYTES - 1, PREALLOCATE_FOR_ERROR_BYTES,
     PREALLOCATE_FOR_ERROR_BYTES + 1, PREALLOCATE_FOR_RESULT_BYTES - 1,
     PREALLOCATE_FOR_RESULT_BYTES}

DescrLens ==
    {0, 24, PREALLOCATE_FOR_ERROR_BYTES - 1, PREALLOCATE_FOR_ERROR_BYTES,
     PREALLOCATE_FOR_ERROR_BYTES + 1, 300}

Seeds == 0..MaxSeed

CoreOk(n) == [ok |-> TRUE, len |-> n, kind |-> "Ok"]

CoreErr(kind) == [ok |-> FALSE, len |-> 0, kind |-> kind]

Scenario(op, input, core, msgLen, seed) ==
    [op |-> op, input |-> input, core |-> core, msgLen |-> msgLen, seed |-> seed]

UnknownCodes == {-128, -1, 0, 11, 127}

SeqScenarios ==
    {Scenario(op, Enc(32, 32, 48, 1), CoreOk(1), 24, 0) : op \in UnknownCodes}
    \cup {Scenario(op, Enc(32, 32, 48, 1), CoreOk(n), 24, sd) :
            op \in 1..6, n \in ResLens, sd \in Seeds}
    \cup {Scenario(op, Enc(32, 32, 48, 1), CoreErr(k), n, 0) :
            op \in 1..6, k \in ErrorKinds, n \in DescrLens}
    \cup {Scenario(op, inp, core, n, 0) :
            op \in 7..10, inp \in ModulusInputs,
            core \in {CoreOk(0), CoreOk(PREALLOCATE_FOR_ERROR_BYTES + 1),
                      CoreOk(PREALLOCATE_FOR_RESULT_BYTES),
                      CoreErr("InvalidSubgroup")},
            n \in {24, 300}}

ConcScenarios ==
    {Scenario(0, << >>, CoreOk(1), 24, 0)}
    \cup {Scenario(1, Enc(1, 1, 7, 7), core, 300, sd) :
            core \in {CoreOk(PREALLOCATE_FOR_ERROR_BYTES + 1),
                      CoreErr("InvalidPoint")},
            sd \in Seeds}
    \cup {Scenario(8, inp, CoreOk(2), 300, 0) :
            inp \in {Enc(MAX_MODULUS_BYTE_LEN + 1, MAX_MODULUS_BYTE_LEN + 1, 1, 1),
                     Enc(MAX_MODULUS_BYTE_LEN, MAX_MODULUS_BYTE_LEN, 128, 1),
                     Enc(1, 1, 7, 7)}}
    \cup {Scenario(8, Enc(1, 1, 7, 7), CoreErr("InvalidSubgroup"), 300, 0)}

\* the arguments of call c
Args(c, sc) ==
    [op |-> sc.op,
     i |-> Pointers(c).i, i_len |-> Len(sc.input),
     o |-> Pointers(c).o, o_len |-> Pointers(c).o_len,
     err |-> Pointers(c).err, char_len |-> Pointers(c).char_len,
     core |-> sc.core, msgLen |-> sc.msgLen, seed |-> sc.seed]

InitMem(inputs) ==
    [a \in Heap |->
        LET c == (a \div RegionSize) + 1
            off == a - Base(c)
        IN  IF off < MaxInputLen
            THEN IF off < Len(inputs[c]) THEN inputs[c][off + 1] ELSE FillByte
            ELSE IF off < MaxInputLen + PREALLOCATE_FOR_RESULT_BYTES
                              + PREALLOCATE_FOR_ERROR_BYTES
            THEN FillByte
            ELSE UnsetLen]

\* what the group or pairing implementation returns for the call's input
CoreResult(c) ==
    IF env[c].core.ok
    THEN Ok(Bytes(env[c].core.len, env[c].seed))
    ELSE Err(env[c].core.kind, Bytes(env[c].msgLen, env[c].seed + 3))

\* the description text of an error raised by the decoder or the selector
DecodeDescr(c) == Bytes(env[c].msgLen, env[c].seed + 5)

(***************************************************************************)
(* Initial states                                                          *)
(***************************************************************************)
InitCommon(sc, started) ==
    /\ env = [c \in Calls |-> Args(c, sc[c])]
    /\ mem = InitMem([c \in Calls |-> sc[c].input])
    /\ mem0 = mem
    /\ pc = [c \in Calls |-> IF c \in started THEN "entry" ELSE "idle"]
    /\ operation = [c \in Calls |-> "none"]
    /\ modulus = [c \in Calls |-> << >>]
    /\ limbs = [c \in Calls |-> 0]
    /\ result = [c \in Calls |-> NoResult]
    /\ ret = [c \in Calls |-> -1]
    /\ calls = [c \in Calls |-> << >>]
    /\ rd = [c \in Calls |-> {}]
    /\ wr = [c \in Calls |-> {}]

\* one call, the other thread makes none
Init ==
    \E s1 \in SeqScenarios :
        InitCommon([c \in Calls |-> IF c = 1 THEN s1
                                    ELSE Scenario(0, << >>, CoreOk(0), 0, 0)],
                   {1})

\* two threads, one call each, on disjoint buffers
InitConc ==
    \E s1 \in ConcScenarios, s2 \in ConcScenarios :
        InitCommon([c \in Calls |-> IF c = 1 THEN s1 ELSE s2], Calls)

(***************************************************************************)
(* Steps of one call                                                       *)
(***************************************************************************)
\* c_perform_operation up to the call of perform_operation
Entry(c) ==
    /\ pc[c] = "entry"
    /\ LET k == MatchOp(op_u8(env[c].op))
       IN  IF k = "unknown"
           THEN LET e == UnknownOperation(c, mem)
                IN  /\ mem' = e.mem
                    /\ ret' = [ret EXCEPT ![c] = e.ret]
                    /\ wr' = [wr EXCEPT ![c] = @ \cup e.wr]
                    /\ pc' = [pc EXCEPT ![c] = "done"]
                    /\ UNCHANGED operation
           ELSE /\ operation' = [operation EXCEPT ![c] = k]
                /\ pc' = [pc EXCEPT ![c] = "perform"]
                /\ UNCHANGED <<mem, ret, wr>>
    /\ UNCHANGED <<env, mem0, modulus, limbs, result, calls, rd>>

\* perform_operation, arms G1ADD .. G2MULTIEXP
PerformGroup(c) ==
    /\ pc[c] = "perform"
    /\ operation[c] \notin PairingOps
    /\ calls' = [calls EXCEPT ![c] = Append(@, [fn |-> HandlerOf(operation[c]), limbs |-> 0])]
    /\ rd' = [rd EXCEPT ![c] = @ \cup {<<input_slice(c).ptr, input_slice(c).len>>}]
    /\ result' = [result EXCEPT ![c] = CoreResult(c)]
    /\ pc' = [pc EXCEPT ![c] = "marshal"]
    /\ UNCHANGED <<env, mem, mem0, operation, modulus, limbs, ret, wr>>

\* perform_operation, pairing arm: parse_modulus_and_length(&input)?
ParseModulus(c) ==
    /\ pc[c] = "perform"
    /\ operation[c] \in PairingOps
    /\ LET s == parse_step(Load(mem, input_slice(c)), DecodeDescr(c))
       IN  /\ modulus' = [modulus EXCEPT ![c] = s.modulus]
           /\ result' = [result EXCEPT ![c] = s.result]
           /\ pc' = [pc EXCEPT ![c] = s.next]
    /\ calls' = [calls EXCEPT ![c] = Append(@, [fn |-> "parse_modulus_and_length", limbs |-> 0])]
    /\ rd' = [rd EXCEPT ![c] = @ \cup {<<input_slice(c).ptr, input_slice(c).len>>}]
    /\ UNCHANGED <<env, mem, mem0, operation, limbs, ret, wr>>

\* perform_operation, pairing arm: num_limbs_for_modulus(&modulus)?
SelectLimbs(c) ==
    /\ pc[c] = "limbs"
    /\ LET s == limbs_step(modulus[c], DecodeDescr(c))
       IN  /\ limbs' = [limbs EXCEPT ![c] = s.limbs]
           /\ result' = [result EXCEPT ![c] = s.result]
           /\ pc' = [pc EXCEPT ![c] = s.next]
    /\ calls' = [calls EXCEPT ![c] = Append(@, [fn |-> "num_limbs_for_modulus", limbs |-> 0])]
    /\ UNCHANGED <<env, mem, mem0, operation, modulus, ret, rd, wr>>

\* perform_operation, pairing arm: the inner match
RunPairing(c) ==
    /\ pc[c] = "pair"
    /\ LET f == PairingImpl(operation[c])
       IN  IF f = "unreachable"
           THEN /\ pc' = [pc EXCEPT ![c] = "panic"]
                /\ UNCHANGED <<calls, result>>
           ELSE /\ calls' = [calls EXCEPT ![c] =
                               Append(@, expand_for_modulus_limbs(limbs[c], f))]
                /\ result' = [result EXCEPT ![c] = CoreResult(c)]
                /\ pc' = [pc EXCEPT ![c] = "marshal"]
    /\ UNCHANGED <<env, mem, mem0, operation, modulus, limbs, ret, rd, wr>>

\* c_perform_operation: match result
Marshal(c) ==
    /\ pc[c] = "marshal"
    /\ LET e == IF result[c].ok
                THEN MarshalOk(c, mem, result[c].bytes)
                ELSE MarshalErr(c, mem, result[c].bytes)
       IN  /\ mem' = e.mem
           /\ ret' = [ret EXCEPT ![c] = e.ret]
           /\ wr' = [wr EXCEPT ![c] = @ \cup e.wr]
    /\ pc' = [pc EXCEPT ![c] = "done"]
    /\ UNCHANGED <<env, mem0, operation, modulus, limbs, result, calls, rd>>

Next ==
    \E c \in Calls :
        \/ Entry(c)
        \/ PerformGroup(c)
        \/ ParseModulus(c)
        \/ SelectLimbs(c)
        \/ RunPairing(c)
        \/ Marshal(c)

Spec == Init /\ [][Next]_vars

SpecConc == InitConc /\ [][Next]_vars

(***************************************************************************)
(* Vocabulary of the properties                                            *)
(***************************************************************************)
Started(c) == pc[c] # "idle"

Done(c) == pc[c] = "done"

\* perform_operation has returned
Returned(c) == pc[c] \in {"marshal", "done"}

Code(c) == op_u8(env[c].op)

KnownCode(c) == Code(c) \in 1..10

\* the numbering of the operation kinds as the interface documents it
KindOfCode ==
    <<"G1ADD", "G1MUL", "G1MULTIEXP", "G2ADD", "G2MUL", "G2MULTIEXP",
      "BLS12PAIR", "BNPAIR", "MNT4PAIR", "MNT6PAIR">>

ImplOfCode ==
    <<"PublicG1Api::add_points", "PublicG1Api::mul_point", "PublicG1Api::multiexp",
      "PublicG2Api::add_points", "PublicG2Api::mul_point", "PublicG2Api::multiexp",
      "pair_bls12", "pair_bn", "pair_mnt4", "pair_mnt6">>

DecodeSteps == {"parse_modulus_and_length", "num_limbs_for_modulus"}

IsImpl(x) == x.fn \notin DecodeSteps

\* the group or pairing implementations the call has invoked, in order
ImplCalls(c) == SelectSeq(calls[c], IsImpl)

OutBuf(c) == Slice(env[c].o, PREALLOCATE_FOR_RESULT_BYTES)

ErrBuf(c) == Slice(env[c].err, PREALLOCATE_FOR_ERROR_BYTES)

SetsOLen(c) == <<env[c].o_len, 1>> \in wr[c]

SetsCharLen(c) == <<env[c].char_len, 1>> \in wr[c]

Unchanged(s) == Load(mem, s) = Load(mem0, s)

\* bytes written through the error pointer
ErrBytesWritten(c) == {w[2] : w \in {x \in wr[c] : x[1] = env[c].err}}

C2_UnknownCode ==
    \A c \in Calls :
        (Started(c) /\ ~KnownCode(c)) =>
            /\ pc[c] \in {"entry", "done"}
            /\ operation[c] = "none"
            /\ calls[c] = << >>
            /\ rd[c] = {}
            /\ Done(c) =>
                  /\ ret[c] = 1
                  /\ Load(mem, Slice(env[c].err, Len(UnknownOperationMsg)))
                        = UnknownOperationMsg
                  /\ ErrBytesWritten(c) = {Len(UnknownOperationMsg)}
                  /\ mem[env[c].char_len] = Len(UnknownOperationMsg)
                  /\ ~SetsOLen(c)

C2_Witness ==
    \E c \in Calls :
        /\ Done(c) /\ Code(c) = 255
        /\ ret[c] = 1
        /\ mem[env[c].char_len] = 23

(***************************************************************************)
(* C3: a result of 0..768 bytes is returned whole: the call returns 0,     *)
(* o_len is the full result length and the output buffer holds every       *)
(* byte of the result in order.                                            *)
(***************************************************************************)
C3_WholeResult ==
    \A c \in Calls :
        (Done(c) /\ KnownCode(c) /\ result[c].ok
              /\ Len(result[c].bytes) <= PREALLOCATE_FOR_RESULT_BYTES) =>
            /\ ret[c] = 0
            /\ mem[env[c].o_len] = Len(result[c].bytes)
            /\ Load(mem, Slice(env[c].o, Len(result[c].bytes))) = result[c].bytes

(***************************************************************************)
(* C4: every call has exactly one of two outcomes: it returns 0 and sets   *)
(* o_len exactly when the code is known and perform_operation returned     *)
(* Ok; otherwise it returns 1 and sets char_len.  Never both, never        *)
(* neither.                                                                *)
(***************************************************************************)
C4_OneOutcome ==
    \A c \in Calls :
        Done(c) =>
            /\ ret[c] \in {0, 1}
            /\ ret[c] = 0 <=> (KnownCode(c) /\ result[c].ok)
            /\ ret[c] = 0 => (SetsOLen(c) /\ ~SetsCharLen(c))
            /\ ret[c] = 1 => (SetsCharLen(c) /\ ~SetsOLen(c))

C4_Witness ==
    \E c \in Calls :
        /\ Done(c) /\ ret[c] = 0
        /\ result[c].ok /\ Len(result[c].bytes) = 1
        /\ SetsOLen(c)

(***************************************************************************)
(* C5: when the call returns 1 the output buffer and o_len are as they     *)
(* were before the call; when it returns 0 the error buffer and char_len   *)
(* are as they were before the call.                                       *)
(***************************************************************************)
C5_NoPartialResult ==
    \A c \in Calls :
        Done(c) =>
            /\ ret[c] = 1 =>
                  /\ Unchanged(OutBuf(c))
                  /\ mem[env[c].o_len] = mem0[env[c].o_len]
                  /\ \A w \in wr[c] : w[1] \notin {env[c].o, env[c].o_len}
            /\ ret[c] = 0 =>
                  /\ Unchanged(ErrBuf(c))
                  /\ mem[env[c].char_len] = mem0[env[c].char_len]
                  /\ \A w \in wr[c] : w[1] \notin {env[c].err, env[c].char_len}

C5_Witness ==
    \E c \in Calls :
        /\ Done(c) /\ ret[c] = 1
        /\ KnownCode(c) /\ ~result[c].ok /\ Len(result[c].bytes) = 24
        /\ Unchanged(OutBuf(c))

(***************************************************************************)
(* C6: for an error description of any length the call writes at most      *)
(* 256 bytes to the error buffer and sets char_len to the number written,  *)
(* min(description length, 256); char_len never exceeds 256.               *)
(***************************************************************************)
C6_ErrorBound ==
    \A c \in Calls :
        /\ mem[env[c].char_len] \in {mem0[env[c].char_len]}
                                      \cup 0..PREALLOCATE_FOR_ERROR_BYTES
        /\ \A n \in ErrBytesWritten(c) : n <= PREALLOCATE_FOR_ERROR_BYTES
        /\ (Done(c) /\ KnownCode(c) /\ ~result[c].ok) =>
              LET n == Min(Len(result[c].bytes), PREALLOCATE_FOR_ERROR_BYTES)
              IN  /\ mem[env[c].char_len] = n
                  /\ ErrBytesWritten(c) = {n}
                  /\ Load(mem, Slice(env[c].err, n)) = Prefix(result[c].bytes, n)
                  /\ Load(mem, Slice(env[c].err + n, PREALLOCATE_FOR_ERROR_BYTES - n))
                        = Load(mem0, Slice(env[c].err + n, PREALLOCATE_FOR_ERROR_BYTES - n))
                  /\ mem[env[c].o_len] = mem0[env[c].o_len]

C6_Witness ==
    \E c \in Calls :
        /\ Done(c) /\ KnownCode(c) /\ ~result[c].ok
        /\ Len(result[c].bytes) = 300
        /\ mem[env[c].char_len] = 256

(***************************************************************************)
(* Pairing calls: what the input declares                                  *)
(***************************************************************************)
InputBytes(c) == Load(mem0, input_slice(c))

\* the modulus byte length the input declares exceeds the supported maximum
ByteLengthTooLarge(c) ==
    /\ Len(InputBytes(c)) >= BYTES_FOR_LENGTH_ENCODING
    /\ InputBytes(c)[1] > MAX_MODULUS_BYTE_LEN

\* the decoded modulus needs more than the largest supported limb count
BitLengthTooLarge(c) ==
    /\ modulus[c] # << >>
    /\ (BitLength(modulus[c]) \div LIMB_BITS) + 1 > MAX_LIMBS

PairingCall(c) == Started(c) /\ KnownCode(c) /\ Code(c) \in 7..10

perform_alone(c, op) ==
    IF op \notin PairingOps THEN CoreResult(c)
    ELSE LET p == parse_step(Load(mem0, input_slice(c)), DecodeDescr(c))
         IN  IF p.next = "marshal" THEN p.result
             ELSE LET l == limbs_step(p.modulus, DecodeDescr(c))
                  IN  IF l.next = "marshal" THEN l.result ELSE CoreResult(c)

\* the call run by itself from the initial memory
Alone(c) ==
    LET op == MatchOp(op_u8(env[c].op))
    IN  IF op = "unknown" THEN UnknownOperation(c, mem0)
        ELSE LET r == perform_alone(c, op)
             IN  IF r.ok THEN MarshalOk(c, mem0, r.bytes)
                 ELSE MarshalErr(c, mem0, r.bytes)

OwnBuffers(c) ==
    {<<env[c].i, env[c].i_len>>,
     <<env[c].o, PREALLOCATE_FOR_RESULT_BYTES>>,
     <<env[c].err, PREALLOCATE_FOR_ERROR_BYTES>>,
     <<env[c].o_len, 1>>, <<env[c].char_len, 1>>}

Within(a, b) == a[1] >= b[1] /\ a[1] + a[2] <= b[1] + b[2]

C8_NoInterference ==
    \A c \in Calls :
        /\ \A a \in rd[c] \cup wr[c] : \E b \in OwnBuffers(c) : Within(a, b)
        /\ Done(c) =>
              LET alone == Alone(c)
              IN  /\ ret[c] = alone.ret
                  /\ wr[c] = alone.wr
                  /\ [a \in Region(c) |-> mem[a]] = [a \in Region(c) |-> alone.mem[a]]

C8_Witness ==
    /\ \A c \in Calls : Done(c)
    /\ ret[1] = 0 /\ ret[2] = 1
    /\ mem[env[1].o_len] = PREALLOCATE_FOR_ERROR_BYTES
    /\ mem[env[2].char_len] = PREALLOCATE_FOR_ERROR_BYTES

(***************************************************************************)
(* C9: a pairing call proceeds parse modulus -> select limb count -> run   *)
(* the implementation: the limb count is selected once, from the parsed    *)
(* modulus; a failure of either step is the call's error, returned before  *)
(* any implementation runs; on success exactly one implementation runs,    *)
(* that of the requested family; the unreachable arm is never taken.       *)
(***************************************************************************)
PairingTrace(c) ==
    <<[fn |-> "parse_modulus_and_length", limbs |-> 0],
      [fn |-> "num_limbs_for_modulus", limbs |-> 0],
      [fn |-> ImplOfCode[Code(c)], limbs |-> limbs[c]]>>

C9_PairingOrder ==
    \A c \in Calls :
        PairingCall(c) =>
            /\ pc[c] # "panic"
            /\ Len(calls[c]) <= 3
            /\ calls[c] = Prefix(PairingTrace(c), Len(calls[c]))
            /\ pc[c] = "limbs" => (calls[c] = Prefix(PairingTrace(c), 1) /\ modulus[c] # << >>)
            /\ pc[c] = "pair" =>
                  /\ calls[c] = Prefix(PairingTrace(c), 2)
                  /\ limbs[c] \in MIN_LIMBS..MAX_LIMBS
                  /\ limbs[c] * LIMB_BITS > BitLength(modulus[c])
            /\ Returned(c) =>
                  \/ /\ Len(calls[c]) = 1
                     /\ ~result[c].ok /\ modulus[c] = << >> /\ limbs[c] = 0
                  \/ /\ Len(calls[c]) = 2
                     /\ ~result[c].ok /\ modulus[c] # << >> /\ limbs[c] = 0
                  \/ /\ Len(calls[c]) = 3
                     /\ result[c] = CoreResult(c)
                     /\ limbs[c] \in MIN_LIMBS..MAX_LIMBS
                     /\ limbs[c] * LIMB_BITS > BitLength(modulus[c])

C9_Witness ==
    \E c \in Calls :
        /\ PairingCall(c) /\ Done(c) /\ Code(c) = 8
        /\ Len(calls[c]) = 3
        /\ calls[c][3] = [fn |-> "pair_bn", limbs |-> 6]
        /\ result[c].ok

(***************************************************************************)
(* C10: a successful result that cannot be written in full is not          *)
(* reported as success: the call returns 1 with "Failed to write the       *)
(* result" in the error buffer and char_len set to the message length.     *)
(***************************************************************************)
C10_NoTruncatedSuccess ==
    \A c \in Calls :
        (Done(c) /\ KnownCode(c) /\ result[c].ok
              /\ Len(result[c].bytes) > raw_out(c).len) =>
            /\ ret[c] = 1
            /\ Load(mem, Slice(env[c].err, Len(FailedToWriteMsg))) = FailedToWriteMsg
            /\ mem[env[c].char_len] = Len(FailedToWriteMsg)

====
